---- MODULE Spec2Model ----
(***************************************************************************)
(* One invocation of the Spotify CLI (src/spotify_cli.py): main() parses   *)
(* the command line, checks the credentials, constructs the client and     *)
(* dispatches to one SpotifyCLI method.  The remote service (the spotipy   *)
(* client's endpoints), the environment and the user's answer to input()   *)
(* are the nondeterministic inputs.                                        *)
(***************************************************************************)
EXTENDS Integers, Sequences, FiniteSets, TLC

VARIABLES
    argv,        \* sys.argv[1:], a sequence of tokens
    env,         \* os.environ: SPOTIFY_CLIENT_ID / SPOTIFY_CLIENT_SECRET
    pc,          \* position in main(): "parse", "parsed", "dispatch", "play_start", "done"
    args,        \* the argparse Namespace
    constructed, \* SpotifyCLI() has been constructed (cli exists)
    calls,       \* remote calls issued through self.sp, in order
    out,         \* messages printed, in order
    guard,       \* return value of check_active_device: "none", "true", "false", "raised"
    opened,      \* webbrowser.open was called
    listing,     \* the answer to the last devices() call, if any
    answer,      \* what input() returned at the web-player prompt, if asked
    exitCode     \* process exit status once pc = "done" (-1 while running)

vars == <<argv, env, pc, args, constructed, calls, out, guard, opened, listing, answer, exitCode>>

(***************************************************************************)
(* Bounds and program constants                                            *)
(***************************************************************************)
MaxDevices == 2      \* longest device list the service answers with
LevelSlack == 3      \* volume levels range over VolMin-LevelSlack .. VolMax+LevelSlack
VolMin == 0
VolMax == 100
DefaultLimit == 10
DefaultPlaylistsLimit == 20

None == "<None>"     \* Python's None where a string is expected

\* Python truthiness of an Optional[str]
Truthy(s) == s \notin {None, ""}

(***************************************************************************)
(* Command-line tokens.  k = "int": text that int() accepts, with value n; *)
(* k = "opt": text starting with "--"; k = "str": any other text.          *)
(***************************************************************************)
StrTok(s) == [k |-> "str", s |-> s, n |-> 0]
IntTok(n) == [k |-> "int", s |-> "#", n |-> n]
OptTok(s) == [k |-> "opt", s |-> s, n |-> 0]

Commands == {"now", "play", "pause", "next", "prev", "volume", "search",
             "playlists", "playlist", "devices", "top"}

\* positional arguments of each subparser
Positionals(cmd) ==
    CASE cmd = "play"     -> << [dest |-> "uri",   type |-> "str", required |-> FALSE] >>
      [] cmd = "volume"   -> << [dest |-> "level", type |-> "int", required |-> TRUE] >>
      [] cmd = "search"   -> << [dest |-> "query", type |-> "str", required |-> TRUE] >>
      [] cmd = "playlist" -> << [dest |-> "uri",   type |-> "str", required |-> TRUE] >>
      [] OTHER            -> << >>

\* optional arguments of each subparser
Options(cmd) ==
    CASE cmd = "play"      -> { [flag |-> "--open", dest |-> "open", action |-> "store_true",
                                 type |-> "str", choices |-> {}] }
      [] cmd = "search"    -> { [flag |-> "--type", dest |-> "type", action |-> "store",
                                 type |-> "str", choices |-> {"track", "artist", "album"}],
                                [flag |-> "--limit", dest |-> "limit", action |-> "store",
                                 type |-> "int", choices |-> {}] }
      [] cmd = "playlists" -> { [flag |-> "--limit", dest |-> "limit", action |-> "store",
                                 type |-> "int", choices |-> {}] }
      [] cmd = "top"       -> { [flag |-> "--limit", dest |-> "limit", action |-> "store",
                                 type |-> "int", choices |-> {}],
                                [flag |-> "--range", dest |-> "range", action |-> "store",
                                 type |-> "str", choices |-> {"short", "medium", "long"}] }
      [] OTHER             -> {}

\* the Namespace a subparser starts from
Defaults(cmd) ==
    [command |-> cmd, uri |-> None, open |-> FALSE, level |-> 0, query |-> None,
     type |-> "track",
     limit |-> IF cmd = "playlists" THEN DefaultPlaylistsLimit ELSE DefaultLimit,
     range |-> "medium"]

ParseError == [ok |-> FALSE, args |-> Defaults(None)]

\* type= conversion of one token: int() rejects text that is not a number
\* a slip: the type= conversion is left out
ConvertibleAny(tok, type) == TRUE
Convertible(tok, type) == type = "int" => tok.k = "int"

\* choices= check of one token
InChoices(tok, choices) == choices = {} \/ (tok.k = "str" /\ tok.s \in choices)

\* setattr(namespace, dest, value)
Store(ns, dest, tok) ==
    IF dest \in {"level", "limit"} THEN [ns EXCEPT ![dest] = tok.n]
    ELSE [ns EXCEPT ![dest] = tok.s]

RequiredCount(cmd) ==
    Cardinality({i \in 1..Len(Positionals(cmd)) : Positionals(cmd)[i].required})

RECURSIVE ParseRest(_, _, _, _)
ParseRest(cmd, toks, npos, ns) ==
    IF toks = << >> THEN
        IF npos >= RequiredCount(cmd) THEN [ok |-> TRUE, args |-> ns] ELSE ParseError
    ELSE
        LET t == Head(toks) IN
        IF t.k = "opt" THEN
            LET match == {o \in Options(cmd) : o.flag = t.s} IN
            IF match = {} THEN ParseError
            ELSE
                LET o == CHOOSE x \in match : TRUE IN
                IF o.action = "store_true" THEN
                    ParseRest(cmd, Tail(toks), npos, [ns EXCEPT ![o.dest] = TRUE])
                ELSE IF Len(toks) < 2 \/ toks[2].k = "opt" THEN ParseError
                ELSE IF ~Convertible(toks[2], o.type) \/ ~InChoices(toks[2], o.choices)
                     THEN ParseError
                ELSE ParseRest(cmd, Tail(Tail(toks)), npos, Store(ns, o.dest, toks[2]))
        ELSE
            IF npos >= Len(Positionals(cmd)) THEN ParseError
            ELSE
                LET p == Positionals(cmd)[npos + 1] IN
                IF ~Convertible(t, p.type) THEN ParseError
                ELSE ParseRest(cmd, Tail(toks), npos + 1, Store(ns, p.dest, t))

\* parser.parse_args(): the first token selects the subparser
ParseArgs(av) ==
    IF av = << >> THEN [ok |-> TRUE, args |-> Defaults(None)]
    ELSE
        LET c == Head(av) IN
        IF c.k # "str" \/ c.s \notin Commands THEN ParseError
        ELSE ParseRest(c.s, Tail(av), 0, Defaults(c.s))


(***************************************************************************)
(* Inputs                                                                  *)
(***************************************************************************)
Levels == (VolMin - LevelSlack) .. (VolMax + LevelSlack)

\* command lines argparse accepts
GoodArgv ==
    { << >> }
    \cup { <<StrTok(c)>> : c \in Commands \ {"volume", "search", "playlist"} }
    \cup { <<StrTok("play"), StrTok("spotify:track:1")>>,
           <<StrTok("play"), StrTok("")>>,
           <<StrTok("play"), OptTok("--open")>>,
           <<StrTok("play"), StrTok("spotify:track:1"), OptTok("--open")>>,
           <<StrTok("play"), OptTok("--open"), StrTok("spotify:track:1")>> }
    \cup { <<StrTok("volume"), IntTok(n)>> : n \in Levels }
    \cup { <<StrTok("search"), StrTok("q")>>,
           <<StrTok("search"), StrTok("q"), OptTok("--limit"), IntTok(5)>> }
    \cup { <<StrTok("search"), StrTok("q"), OptTok("--type"), StrTok(t)>> :
               t \in {"track", "artist", "album"} }
    \cup { <<StrTok("playlists"), OptTok("--limit"), IntTok(5)>>,
           <<StrTok("playlist"), StrTok("spotify:playlist:1")>>,
           <<StrTok("top"), OptTok("--limit"), IntTok(5)>> }
    \cup { <<StrTok("top"), OptTok("--range"), StrTok(r)>> :
               r \in {"short", "medium", "long"} }

\* unknown commands and malformed arguments
BadArgv ==
    { <<StrTok("bogus")>>,
      <<OptTok("--open")>>,
      <<IntTok(5)>>,
      <<StrTok("volume")>>,
      <<StrTok("volume"), StrTok("loud")>>,
      <<StrTok("volume"), IntTok(5), IntTok(6)>>,
      <<StrTok("search")>>,
      <<StrTok("search"), StrTok("q"), OptTok("--type"), StrTok("playlist")>>,
      <<StrTok("search"), StrTok("q"), OptTok("--type")>>,
      <<StrTok("search"), StrTok("q"), OptTok("--limit"), StrTok("many")>>,
      <<StrTok("playlists"), OptTok("--limit"), StrTok("many")>>,
      <<StrTok("playlist")>>,
      <<StrTok("top"), OptTok("--range"), StrTok("forever")>>,
      <<StrTok("top"), OptTok("--range"), OptTok("--limit")>>,
      <<StrTok("pause"), StrTok("now")>>,
      <<StrTok("devices"), OptTok("--open")>>,
      <<StrTok("play"), OptTok("--bogus")>>,
      <<StrTok("play"), StrTok("a"), StrTok("b")>> }

\* os.getenv of a variable: unset, set to the empty string, or set
EnvValues == {None, "", "secret"}

\* a device as devices() lists it
Device == [is_active : BOOLEAN]
DeviceLists == UNION { [1..n -> Device] : n \in 0..MaxDevices }

\* what the user types at the input() prompt; Eof: stdin is closed
Eof == "<EOF>"
Responses == {"y", "yes", "Y", "Yes", "YES", "n", "no", "", "yep", Eof}

\* str.lower() on the answers above
Lower(s) ==
    CASE s = "Y" -> "y"
      [] s \in {"Yes", "YES"} -> "yes"
      [] OTHER -> s


(***************************************************************************)
(* Pure parts of the program                                               *)
(***************************************************************************)
Max(a, b) == IF a >= b THEN a ELSE b
Min(a, b) == IF a <= b THEN a ELSE b

\* volume(): level = max(0, min(100, level))
ClampUpperOnly(level) == Min(VolMax, level)
Clamp(level) == Max(VolMin, Min(VolMax, level))

\* main(): not os.getenv(ID) or not os.getenv(SECRET)
CredentialsMissingBoth(e) == ~Truthy(e.id) /\ ~Truthy(e.secret)
CredentialsMissing(e) == ~Truthy(e.id) \/ ~Truthy(e.secret)

\* main(): time_range = f"{args.range}_term"
TimeRange(r) ==
    CASE r = "short" -> "short_term"
      [] r = "medium" -> "medium_term"
      [] r = "long" -> "long_term"
      [] OTHER -> "_term"

\* top_tracks(): range_names.get(time_range, time_range)
RangeName(tr) ==
    CASE tr = "short_term" -> "Last 4 Weeks"
      [] tr = "medium_term" -> "Last 6 Months"
      [] tr = "long_term" -> "All Time"
      [] OTHER -> tr

Say(m) == [msg |-> m, n |-> 0]
SayN(m, k) == [msg |-> m, n |-> k]
Call(ep, s, n, ok) == [ep |-> ep, s |-> s, n |-> n, ok |-> ok]

\* active_devices = [d for d in devices['devices'] if d['is_active']]
IsActive(d) == d.is_active
ActiveDevices(devs) == SelectSeq(devs, IsActive)

NoDeviceHelp == << Say("No Spotify devices found!"), Say("To use Spotify CLI, you need to:") >>

\* a slip: opening the web player is taken for a successful remedy
NoneRegisteredOpenOk(auto_open, response) ==
    IF auto_open THEN
        IF response = Eof THEN
            [ret |-> "raised", out |-> NoDeviceHelp, opened |-> FALSE]
        ELSE IF Lower(response) \in {"y", "yes"} THEN
            [ret |-> "true",
             out |-> NoDeviceHelp \o << Say("Web player opened!") >>,
             opened |-> TRUE]
        ELSE
            [ret |-> "false", out |-> NoDeviceHelp, opened |-> FALSE]
    ELSE
        [ret |-> "false",
         out |-> NoDeviceHelp \o << Say("Tip: Use 'spotify play --open'") >>,
         opened |-> FALSE]

\* check_active_device(), the branch of an empty device list: what it returns
\* ("raised": input() met a closed stdin), what it prints, whether it opened
\* the browser
NoneRegistered(auto_open, response) ==
    IF auto_open THEN
        IF response = Eof THEN
            [ret |-> "raised", out |-> NoDeviceHelp, opened |-> FALSE]
        ELSE IF Lower(response) \in {"y", "yes"} THEN
            [ret |-> "false",
             out |-> NoDeviceHelp \o << Say("Web player opened!") >>,
             opened |-> TRUE]
        ELSE
            [ret |-> "false", out |-> NoDeviceHelp, opened |-> FALSE]
    ELSE
        [ret |-> "false",
         out |-> NoDeviceHelp \o << Say("Tip: Use 'spotify play --open'") >>,
         opened |-> FALSE]

\* check_active_device(), the branch of devices none of which is active
NoneActive(devs) ==
    [ret |-> "false",
     out |-> << Say("Spotify devices found but none are active:") >>
             \o [i \in 1..Len(devs) |-> SayN("device", i)]
             \o << Say("Open Spotify on one of these devices") >>,
     opened |-> FALSE]

\* a slip: devices that exist but are idle are taken for usable
CheckActiveDeviceIdleOk(devs, auto_open, response) ==
    IF devs = << >> THEN NoneRegistered(auto_open, response)
    ELSE [ret |-> "true", out |-> << >>, opened |-> FALSE]

\* check_active_device() after the listing
CheckActiveDevice(devs, auto_open, response) ==
    IF devs = << >> THEN NoneRegistered(auto_open, response)
    ELSE IF ActiveDevices(devs) = << >> THEN NoneActive(devs)
    ELSE [ret |-> "true", out |-> << >>, opened |-> FALSE]

(***************************************************************************)
(* The invocation                                                          *)
(***************************************************************************)
Init ==
    /\ argv \in GoodArgv \cup BadArgv
    /\ env \in [id : EnvValues, secret : EnvValues]
    /\ pc = "parse"
    /\ args = Defaults(None)
    /\ constructed = FALSE
    /\ calls = << >>
    /\ out = << >>
    /\ guard = "none"
    /\ opened = FALSE
    /\ listing = [listed |-> FALSE, devices |-> << >>]
    /\ answer = None
    /\ exitCode = -1

\* the process ends with status code after printing msgs
Exit(code, msgs) ==
    /\ pc' = "done"
    /\ exitCode' = code
    /\ out' = out \o msgs

\* main(): args = parser.parse_args(); a parse error is sys.exit(2)
Parse ==
    /\ pc = "parse"
    /\ LET r == ParseArgs(argv) IN
        IF r.ok THEN
            /\ args' = r.args
            /\ pc' = "parsed"
            /\ UNCHANGED <<out, exitCode>>
        ELSE
            /\ Exit(2, << Say("usage") >>)
            /\ UNCHANGED args
    /\ UNCHANGED <<argv, env, constructed, calls, guard, opened, listing, answer>>

\* main(): if not args.command: parser.print_help(); return
NoCommand ==
    /\ pc = "parsed"
    /\ ~Truthy(args.command)
    /\ Exit(0, << Say("help") >>)
    /\ UNCHANGED <<argv, env, args, constructed, calls, guard, opened, listing, answer>>

\* main(): credentials not found: sys.exit(1)
MissingCredentials ==
    /\ pc = "parsed"
    /\ Truthy(args.command)
    /\ CredentialsMissing(env)
    /\ Exit(1, << Say("Error: Spotify credentials not found!") >>)
    /\ UNCHANGED <<argv, env, args, constructed, calls, guard, opened, listing, answer>>

\* main(): cli = SpotifyCLI()
Construct ==
    /\ pc = "parsed"
    /\ Truthy(args.command)
    /\ ~CredentialsMissing(env)
    /\ constructed' = TRUE
    /\ pc' = "dispatch"
    /\ UNCHANGED <<argv, env, args, calls, out, guard, opened, listing, answer, exitCode>>

Dispatching(cmd) == pc = "dispatch" /\ args.command = cmd

\* an exception that reaches main()'s handler: print, sys.exit(1)
Raised == Exit(1, << Say("Error") >>)


\* current_playback()
Now ==
    /\ Dispatching("now")
    /\ \E r \in {"fail", "nothing", "track"} :
        /\ calls' = Append(calls, Call("current_playback", None, 0, r # "fail"))
        /\ CASE r = "fail" -> Raised
             [] r = "nothing" -> Exit(0, << Say("Nothing is currently playing") >>)
             [] r = "track" -> Exit(0, << Say("Now Playing") >>)
    /\ UNCHANGED <<argv, env, args, constructed, guard, opened, listing, answer>>

\* play(), first half: if not self.check_active_device(auto_open): return
PlayCheckDevice ==
    /\ Dispatching("play")
    /\ \E ok \in BOOLEAN, devs \in DeviceLists, response \in Responses :
        /\ calls' = Append(calls, Call("devices", None, 0, ok))
        /\ IF ~ok THEN
              /\ guard' = "raised"
              /\ Raised
              /\ UNCHANGED <<opened, listing, answer>>
           ELSE
              LET g == CheckActiveDevice(devs, args.open, response) IN
              /\ listing' = [listed |-> TRUE, devices |-> devs]
              /\ guard' = g.ret
              /\ opened' = g.opened
              /\ answer' = IF devs = << >> /\ args.open THEN response ELSE answer
              /\ CASE g.ret = "true" ->
                        /\ pc' = "play_start"
                        /\ out' = out \o g.out
                        /\ UNCHANGED exitCode
                   [] g.ret = "false" -> Exit(0, g.out)
                   [] OTHER -> Exit(1, g.out \o << Say("Error") >>)
    /\ UNCHANGED <<argv, env, args, constructed>>

\* a slip: the URI is queued by one call and playback resumed by a second
PlayStartTwice ==
    /\ pc = "play_start"
    /\ \E ok \in BOOLEAN :
        /\ calls' = calls \o << Call("start_playback", args.uri, 0, TRUE),
                                Call("start_playback", None, 0, ok) >>
        /\ Exit(0, << Say(IF ok THEN "Playing track" ELSE "Error") >>)
    /\ UNCHANGED <<argv, env, args, constructed, guard, opened, listing, answer>>

\* play(), second half: start_playback under the method's own handler
PlayStart ==
    /\ pc = "play_start"
    /\ \E ok \in BOOLEAN :
        IF Truthy(args.uri) THEN
            /\ calls' = Append(calls, Call("start_playback", args.uri, 0, ok))
            /\ Exit(0, << Say(IF ok THEN "Playing track" ELSE "Error") >>)
        ELSE
            /\ calls' = Append(calls, Call("start_playback", None, 0, ok))
            /\ Exit(0, << Say(IF ok THEN "Playback resumed" ELSE "Error") >>)
    /\ UNCHANGED <<argv, env, args, constructed, guard, opened, listing, answer>>

\* pause(), next_track(), previous_track(): one call under the method's handler
Control(cmd, ep, done) ==
    /\ Dispatching(cmd)
    /\ \E ok \in BOOLEAN :
        /\ calls' = Append(calls, Call(ep, None, 0, ok))
        /\ Exit(0, << Say(IF ok THEN done ELSE "Error") >>)
    /\ UNCHANGED <<argv, env, args, constructed, guard, opened, listing, answer>>

Pause == Control("pause", "pause_playback", "Playback paused")
NextTrack == Control("next", "next_track", "Skipped to next track")
PreviousTrack == Control("prev", "previous_track", "Back to previous track")

\* volume()
Volume ==
    /\ Dispatching("volume")
    /\ LET level == Clamp(args.level) IN
       \E ok \in BOOLEAN :
        /\ calls' = Append(calls, Call("volume", None, level, ok))
        /\ Exit(0, << IF ok THEN SayN("Volume set to", level) ELSE Say("Error") >>)
    /\ UNCHANGED <<argv, env, args, constructed, guard, opened, listing, answer>>

\* search()
Search ==
    /\ Dispatching("search")
    /\ \E r \in {"fail", "empty", "items"} :
        /\ calls' = Append(calls, Call("search", args.query, args.limit, r # "fail"))
        /\ CASE r = "fail" -> Raised
             [] r = "empty" ->
                    Exit(0, << Say(CASE args.type = "track" -> "No tracks found"
                                     [] args.type = "artist" -> "No artists found"
                                     [] args.type = "album" -> "No albums found"
                                     [] OTHER -> "") >>)
             [] r = "items" -> Exit(0, << Say("results") >>)
    /\ UNCHANGED <<argv, env, args, constructed, guard, opened, listing, answer>>

\* my_playlists(), playlist_tracks(), top_tracks(): one call, no handler of
\* their own
Listing(cmd, ep, s, n, title) ==
    /\ Dispatching(cmd)
    /\ \E ok \in BOOLEAN :
        /\ calls' = Append(calls, Call(ep, s, n, ok))
        /\ IF ok THEN Exit(0, << Say(title) >>) ELSE Raised
    /\ UNCHANGED <<argv, env, args, constructed, guard, opened, listing, answer>>

MyPlaylists ==
    Listing("playlists", "current_user_playlists", None, args.limit, "Your Playlists:")
PlaylistTracks == Listing("playlist", "playlist", args.uri, 0, "playlist")
TopTracks ==
    Listing("top", "current_user_top_tracks", TimeRange(args.range), args.limit,
            RangeName(TimeRange(args.range)))

\* a slip: an empty list is taken for a failed listing and asked for again
DevicesRetry ==
    /\ Dispatching("devices")
    /\ \E ok \in BOOLEAN, devs \in DeviceLists :
        /\ IF ok /\ devs = << >> THEN
               calls' = calls \o << Call("devices", None, 0, ok), Call("devices", None, 0, ok) >>
           ELSE calls' = Append(calls, Call("devices", None, 0, ok))
        /\ listing' = IF ok THEN [listed |-> TRUE, devices |-> devs] ELSE listing
        /\ IF ~ok THEN Raised
           ELSE IF devs = << >> THEN Exit(0, << Say("No devices found") >>)
           ELSE Exit(0, << Say("Available Devices:") >>
                        \o [i \in 1..Len(devs) |-> SayN("device", i)])
    /\ UNCHANGED <<argv, env, args, constructed, guard, opened, answer>>

\* devices()
Devices ==
    /\ Dispatching("devices")
    /\ \E ok \in BOOLEAN, devs \in DeviceLists :
        /\ calls' = Append(calls, Call("devices", None, 0, ok))
        /\ listing' = IF ok THEN [listed |-> TRUE, devices |-> devs] ELSE listing
        /\ IF ~ok THEN Raised
           ELSE IF devs = << >> THEN Exit(0, << Say("No devices found") >>)
           ELSE Exit(0, << Say("Available Devices:") >>
                        \o [i \in 1..Len(devs) |-> SayN("device", i)])
    /\ UNCHANGED <<argv, env, args, constructed, guard, opened, answer>>

Next ==
    \/ Parse
    \/ NoCommand
    \/ MissingCredentials
    \/ Construct
    \/ Now
    \/ PlayCheckDevice
    \/ PlayStart
    \/ Pause
    \/ NextTrack
    \/ PreviousTrack
    \/ Volume
    \/ Search
    \/ MyPlaylists
    \/ PlaylistTracks
    \/ TopTracks
    \/ Devices

Spec == Init /\ [][Next]_vars


(***************************************************************************)
(* Properties                                                              *)
(***************************************************************************)
Endpoints(cs) == { cs[i].ep : i \in DOMAIN cs }
Printed(m) == \E i \in DOMAIN out : out[i].msg = m

\* the calls a command makes apart from the device guard's listing
IsGuardCall(c) == args.command = "play" /\ c.ep = "devices"
NotGuardCall(c) == ~IsGuardCall(c)
NonGuardCalls == SelectSeq(calls, NotGuardCall)

MutatingEndpoints ==
    {"start_playback", "pause_playback", "next_track", "previous_track", "volume"}

\* the parser accepts every command line of GoodArgv and rejects every one of
\* BadArgv, as argparse does
ParserAgrees ==
    /\ \A a \in GoodArgv : ParseArgs(a).ok
    /\ \A a \in BadArgv : ~ParseArgs(a).ok

\* C1: when play's device check finds devices none of which is active,
\* start_playback is not called in that invocation, with or without a URI and
\* whatever --open is.
C1_NoneActiveNeverStarts ==
    (/\ args.command = "play"
     /\ listing.listed
     /\ listing.devices # << >>
     /\ \A i \in DOMAIN listing.devices : ~listing.devices[i].is_active)
    => (/\ pc = "done"
        /\ "start_playback" \notin Endpoints(calls)
        /\ Len(calls) = 1)

C1_Witness ==
    /\ args.command = "play"
    /\ Truthy(args.uri)
    /\ args.open
    /\ listing.listed
    /\ Len(listing.devices) = MaxDevices
    /\ \A i \in DOMAIN listing.devices : ~listing.devices[i].is_active
    /\ pc = "done"
    /\ Printed("Spotify devices found but none are active:")

\* C2 (as claimed): every playback-mutating call of play, pause, next, prev and
\* volume is preceded by a successful device listing, and is issued only if the
\* device check succeeded.
C2_GuardBeforeEveryMutation ==
    \A i \in DOMAIN calls :
        calls[i].ep \in MutatingEndpoints
        => (/\ guard = "true"
            /\ \E j \in 1..(i - 1) : calls[j].ep = "devices" /\ calls[j].ok)

\* C3: with a command given, if the client id or the client secret is absent
\* from the environment, the process prints the configuration error and exits
\* with code 1, the client is never constructed and no remote call is made.
C3_MissingCredentialsExit1 ==
    (/\ pc \notin {"parse", "parsed"}
     /\ Truthy(args.command)
     /\ (env.id = None \/ env.secret = None))
    => (/\ pc = "done"
        /\ exitCode = 1
        /\ ~constructed
        /\ calls = << >>
        /\ out = << Say("Error: Spotify credentials not found!") >>)

C3_Witness ==
    /\ pc = "done"
    /\ args.command = "play"
    /\ env.id = "secret"
    /\ env.secret = None
    /\ exitCode = 1

\* C4 (as claimed): for play, pause, next, prev and volume, with credentials
\* present, a failed remote call (the guard's device listing included) ends in
\* a printed error and exit code 0.
C4_RemoteFailureExits0 ==
    (/\ pc = "done"
     /\ args.command \in {"play", "pause", "next", "prev", "volume"}
     /\ \E i \in DOMAIN calls : ~calls[i].ok)
    => (exitCode = 0 /\ Printed("Error"))

\* C5: the volume command sends min(100, max(0, level)) to the volume
\* endpoint, and the value it reports is the value sent.
C5_VolumeClamped ==
    (pc = "done" /\ constructed /\ args.command = "volume")
    => (/\ Len(calls) = 1
        /\ calls[1].ep = "volume"
        /\ calls[1].n = (IF args.level < 0 THEN 0
                         ELSE IF args.level > 100 THEN 100
                         ELSE args.level)
        /\ \A j \in DOMAIN out :
               out[j].msg = "Volume set to" => out[j].n = calls[1].n
        /\ calls[1].ok => out = << SayN("Volume set to", calls[1].n) >>)

C5_Witness ==
    /\ pc = "done"
    /\ args.command = "volume"
    /\ args.level < 0
    /\ Len(calls) = 1
    /\ calls[1].n = 0
    /\ out = << SayN("Volume set to", 0) >>

\* C7: when the devices command is answered an empty device list it prints the
\* no-devices message, makes no remote call but that listing, and the process
\* exits with code 0.
C7_EmptyDeviceList ==
    (args.command = "devices" /\ listing.listed /\ listing.devices = << >>)
    => (/\ pc = "done"
        /\ exitCode = 0
        /\ Len(calls) = 1
        /\ calls[1].ep = "devices"
        /\ out = << Say("No devices found") >>)

C7_Witness ==
    /\ args.command = "devices"
    /\ listing.listed
    /\ listing.devices = << >>
    /\ pc = "done"
    /\ Printed("No devices found")

\* C8: an unknown command or a malformed argument fails in argument parsing
\* (exit status 2): the client is never constructed and no remote call is made.
C8_BadArgvFailsInParsing ==
    argv \in BadArgv
    => (/\ pc \in {"parse", "done"}
        /\ pc = "done" => exitCode = 2
        /\ ~constructed
        /\ calls = << >>)

C8_Witness ==
    /\ argv = << StrTok("volume"), StrTok("loud") >>
    /\ env.id = "secret"
    /\ env.secret = "secret"
    /\ pc = "done"
    /\ exitCode = 2

\* C9: when the guard's device list is empty the guard does not succeed: it
\* returns failure with --open unset, with --open set and the user declining,
\* and with --open set and the web player opened; after opening the web player
\* there is no second device listing and no playback call.
C9_EmptyListGuardFails ==
    (args.command = "play" /\ listing.listed /\ listing.devices = << >>)
    => (/\ pc = "done"
        /\ guard \in {"false", "raised"}
        /\ ~args.open => guard = "false" /\ ~opened
        /\ (args.open /\ answer # Eof) => guard = "false"
        /\ opened => guard = "false" /\ exitCode = 0
        /\ Len(calls) = 1
        /\ calls[1].ep = "devices")

C9_Witness ==
    /\ args.command = "play"
    /\ listing.listed
    /\ listing.devices = << >>
    /\ args.open
    /\ answer = "Yes"
    /\ opened
    /\ guard = "false"
    /\ pc = "done"

\* C10 (as claimed): every invocation that reaches the dispatcher completes
\* having made exactly one remote call besides the guard's listing.  Stated
\* for the invocations in which no remote call fails and nothing is raised,
\* where the claim promises the same.
C10_ExactlyOneCall ==
    (/\ pc = "done"
     /\ constructed
     /\ exitCode = 0
     /\ \A i \in DOMAIN calls : calls[i].ok)
    => Len(NonGuardCalls) = 1

\* C10 (amended): an invocation that reaches the dispatcher never makes two
\* remote calls besides the guard's listing, and completes having made exactly
\* one, except that play makes none when its device check did not succeed.
C10_OneCallUnlessGuardFails ==
    constructed
    => (/\ Len(NonGuardCalls) <= 1
        /\ pc = "done" =>
             Len(NonGuardCalls) =
                 (IF args.command = "play" /\ guard # "true" THEN 0 ELSE 1))

C10_Witness ==
    /\ pc = "done"
    /\ constructed
    /\ args.command = "play"
    /\ guard = "false"
    /\ Len(calls) = 1
    /\ NonGuardCalls = << >>

====
